---- MODULE Spec2Model ----
(***************************************************************************)
(* A model of sonLib's stList (src/C/impl/sonLibList.c): a resizable array *)
(* of opaque element pointers with an optional element destructor, and the *)
(* index iterator over it.                                                 *)
(*                                                                         *)
(* Element pointers are integers, NULL being 0.  A list pointer is the     *)
(* record of the struct it points to, with the address of the struct in    *)
(* the field addr; the NULL list pointer is NullList.  The backing array   *)
(* list->list is a function from slot indices to element pointers that     *)
(* holds the slots written so far: a slot that was never written reads as  *)
(* NULL, which is what st_calloc hands out (the slots st_malloc leaves     *)
(* uninitialised lie at or above length and are never read).  assert() is  *)
(* compiled in: a failed assertion aborts the process (fault), and so does *)
(* the signed overflow of the growth expression, whose wrapped value fails *)
(* the assertion of st_list_appendP or the allocation that follows it.     *)
(***************************************************************************)
EXTENDS Integers, Sequences, FiniteSets, TLC

\* ------------------------------------------------------------------ bounds
MaxVal == 2          \* element pointers are 0 (NULL) .. MaxVal
MaxLen == 2          \* length explored when every operation is available
MaxCoreLen == 3      \* length explored under the narrower specifications
MaxInitLen == 1      \* stList_construct3 is called with lengths -1 .. MaxInitLen
MaxAppends == 6      \* length of the append-only runs (crosses 0 -> 5 -> 15)
MaxIters == 2        \* iterators alive at a time
MaxIterLen == 2      \* length explored while iterators and mutations interleave
MaxTravLen == 3      \* length of the containers traversed without mutation
MaxShuffle == 2      \* stList_shuffle is explored on lists up to this length
MaxOther == 1        \* length of the containers passed as arguments
MaxBigWrites == 3    \* slots written in the runs on near-overflow capacities
MaxJoin == 1         \* containers in the container handed to stList_join

\* --------------------------------------------------------------- constants
NULL == 0
MINIMUM_ARRAY_EXPAND_SIZE == 5
INT32_MAX == 2147483647

Vals == 0..MaxVal
DestructFns == {0, 1}            \* NULL, or the one element destructor
ListAddr == 1                    \* address of the container under study
OtherAddr == 2                   \* address of a second container (an argument)
NewAddr == 3                     \* address of a container an operation returns

NullList == [addr |-> 0]
IsNullList(l) == l.addr = 0

\* maxLength*2 + MINIMUM_ARRAY_EXPAND_SIZE in int32_t arithmetic: past
\* INT32_MAX the value wraps round by 2^32.  The wrapped value is
\* 2*(maxLength - 2^31 + 2) + (MINIMUM_ARRAY_EXPAND_SIZE - 4), written so
\* that no intermediate result leaves the 32-bit range.
GrowSize(maxLength) ==
    IF maxLength > (INT32_MAX - MINIMUM_ARRAY_EXPAND_SIZE) \div 2
    THEN ((maxLength - INT32_MAX) + 1) * 2 + (MINIMUM_ARRAY_EXPAND_SIZE - 4)
    ELSE maxLength * 2 + MINIMUM_ARRAY_EXPAND_SIZE

\* ---------------------------------------------------- execution records
\* x.l          the struct stList
\* x.fault      an assertion failed: the process is gone, nothing more runs
\* x.oob        some access to list->list[i] had i outside [0, maxLength)
\* x.destructed the elements the destructor was invoked on, in order
Exec(l, d) == [l |-> l, fault |-> FALSE, oob |-> FALSE, destructed |-> d]

c_assert(x, cond) == IF x.fault \/ cond THEN x ELSE [x EXCEPT !.fault = TRUE]

InSlots(l, i) == i >= 0 /\ i < l.maxLength

\* list->list[i] as an rvalue
slotRead(l, i) == IF i \in DOMAIN l.list THEN l.list[i] ELSE NULL

\* the effect on the execution of evaluating list->list[i]
slotTouch(x, i) ==
    IF x.fault \/ InSlots(x.l, i) THEN x ELSE [x EXCEPT !.oob = TRUE]

\* list->list[i] = v
slotWrite(x, i, v) ==
    IF x.fault THEN x
    ELSE IF InSlots(x.l, i) THEN [x EXCEPT !.l.list = (i :> v) @@ @]
    ELSE [x EXCEPT !.oob = TRUE]

\* ------------------------------------------------------------ construction
stList_construct3(length, destructElement) ==
    LET x0 == c_assert(Exec(NullList, <<>>), length >= 0)
    IN  IF x0.fault THEN x0
        ELSE [x0 EXCEPT !.l = [addr |-> ListAddr,
                               length |-> length,
                               maxLength |-> length,
                               list |-> <<>>,
                               destructElement |-> destructElement]]

stList_construct2(size) == stList_construct3(size, NULL)

stList_construct == stList_construct3(0, NULL)

\* a freshly returned container (stList_construct() inside an operation)
NewList(destructElement) ==
    [addr |-> NewAddr, length |-> 0, maxLength |-> 0, list |-> <<>>,
     destructElement |-> destructElement]

\* --------------------------------------------------------------- accessors
stList_length(l) == IF IsNullList(l) THEN 0 ELSE l.length

\* stList_get: the execution after the call, and the value returned
stList_getX(x, index) ==
    LET x1 == c_assert(x, index >= 0)
        x2 == c_assert(x1, index < stList_length(x1.l))
    IN  slotTouch(x2, index)

stList_get(l, index) == slotRead(l, index)

\* stList_set writing the slot before it checks the index
stList_set_writeFirst(x, index, item) ==
    LET x1 == slotWrite(x, index, item)
        x2 == c_assert(x1, index >= 0)
    IN  c_assert(x2, index < stList_length(x2.l))

stList_set(x, index, item) ==
    LET x1 == c_assert(x, index >= 0)
        x2 == c_assert(x1, index < stList_length(x1.l))
    IN  slotWrite(x2, index, item)

\* the elements of the container, as the sequence get(0), ..., get(length-1)
Elems(l) == [i \in 1..stList_length(l) |-> stList_get(l, i - 1)]

\* ------------------------------------------------------------------ growth
\* st_list_appendP copying one slot too few
st_list_appendP_dropLast(x, newSize) ==
    LET x1 == c_assert(x, x.l.maxLength <= newSize)
        copied == {i \in DOMAIN x.l.list : i < x.l.maxLength - 1}
    IN  IF x1.fault THEN x1
        ELSE [x1 EXCEPT !.l.list = [i \in copied |-> x.l.list[i]],
                        !.l.maxLength = newSize]

\* memcpy of currentSize slots into a fresh block of newSize slots
st_list_appendP(x, newSize) ==
    LET x1 == c_assert(x, x.l.maxLength <= newSize)
        copied == {i \in DOMAIN x.l.list : i < x.l.maxLength}
    IN  IF x1.fault THEN x1
        ELSE [x1 EXCEPT !.l.list = [i \in copied |-> x.l.list[i]],
                        !.l.maxLength = newSize]

\* stList_append growing only once length has passed maxLength
stList_append_lateGrow(x, item) ==
    IF x.fault THEN x
    ELSE LET x1 == IF stList_length(x.l) > x.l.maxLength
                   THEN st_list_appendP(x, GrowSize(x.l.maxLength))
                   ELSE x
             x2 == slotWrite(x1, x1.l.length, item)
         IN  IF x2.fault THEN x2
             ELSE [x2 EXCEPT !.l.length = @ + 1]

stList_append(x, item) ==
    IF x.fault THEN x
    ELSE LET x1 == IF stList_length(x.l) >= x.l.maxLength
                   THEN st_list_appendP(x, GrowSize(x.l.maxLength))
                   ELSE x
             x2 == slotWrite(x1, x1.l.length, item)
         IN  IF x2.fault THEN x2
             ELSE [x2 EXCEPT !.l.length = @ + 1]

\* the two assertions of stList_get, for a container other than x.l
getOK(l, index) == index >= 0 /\ index < stList_length(l)

RECURSIVE appendAllLoop(_, _, _)
appendAllLoop(x, stListToAdd, i) ==
    IF x.fault \/ ~(i < stList_length(stListToAdd)) THEN x
    ELSE appendAllLoop(
             stList_append(c_assert(x, getOK(stListToAdd, i)),
                           stList_get(stListToAdd, i)),
             stListToAdd, i + 1)

stList_appendAll(x, stListToAdd) ==
    appendAllLoop(c_assert(x, stListToAdd.addr /= x.l.addr), stListToAdd, 0)

\* ----------------------------------------------------------------- removal
stList_peekX(x) ==
    LET x1 == c_assert(x, stList_length(x.l) > 0)
    IN  stList_getX(x1, stList_length(x1.l) - 1)

stList_peek(l) == stList_get(l, stList_length(l) - 1)

RECURSIVE removeLoop(_, _)
removeLoop(x, i) ==
    IF x.fault \/ ~(i < stList_length(x.l)) THEN x
    ELSE removeLoop(stList_set(stList_getX(x, i), i - 1, stList_get(x.l, i)),
                    i + 1)

\* stList_remove that drops the last element instead of closing the gap
stList_remove_noShift(x, index) ==
    LET x1 == c_assert(x, index >= 0)
        x2 == c_assert(x1, index < stList_length(x1.l))
        x3 == stList_getX(x2, index)
    IN  IF x3.fault THEN x3
        ELSE [x3 EXCEPT !.l.length = @ - 1]

\* stList_remove: the execution after the call; the value returned is
\* stList_get(list, index) of the list before the call
stList_remove(x, index) ==
    LET x1 == c_assert(x, index >= 0)
        x2 == c_assert(x1, index < stList_length(x1.l))
        x3 == stList_getX(x2, index)
        x4 == removeLoop(x3, index + 1)
    IN  IF x4.fault THEN x4
        ELSE [x4 EXCEPT !.l.length = @ - 1]

stList_pop(x) == stList_remove(x, stList_length(x.l) - 1)

stList_removeFirst(x) == stList_remove(x, 0)

RECURSIVE removeItemLoop(_, _, _)
removeItemLoop(x, item, i) ==
    IF x.fault \/ ~(i < stList_length(x.l)) THEN x
    ELSE LET x1 == stList_getX(x, i)
         IN  IF stList_get(x.l, i) = item
             THEN stList_remove(x1, i)
             ELSE removeItemLoop(x1, item, i + 1)

stList_removeItem(x, item) == removeItemLoop(x, item, 0)

\* ------------------------------------------------------------------- query
RECURSIVE containsLoop(_, _, _)
containsLoop(l, item, i) ==
    IF ~(i < stList_length(l)) THEN 0
    ELSE IF stList_get(l, i) = item THEN 1
    ELSE containsLoop(l, item, i + 1)

stList_contains(l, item) == containsLoop(l, item, 0)

\* --------------------------------------------------------- bulk operations
stList_copy(l, destructItem) ==
    stList_appendAll(Exec(NewList(destructItem), <<>>), l)

RECURSIVE reverseLoop(_, _, _)
reverseLoop(x, i, j) ==
    IF x.fault \/ ~(i < j \div 2) THEN x
    ELSE LET o  == stList_get(x.l, j - 1 - i)
             x1 == stList_getX(x, j - 1 - i)
             x2 == stList_set(stList_getX(x1, i), j - 1 - i, stList_get(x1.l, i))
             x3 == stList_set(x2, i, o)
         IN  reverseLoop(x3, i + 1, j)

stList_reverse(x) == reverseLoop(x, 0, stList_length(x.l))

\* the comparators handed to stList_sort: pointer order, either way round
CmpFns == {"asc", "desc"}
cmpFn(c, a, b) == IF c = "asc" THEN a - b ELSE b - a

RECURSIVE insertSorted(_, _, _)
insertSorted(c, s, e) ==
    IF s = <<>> THEN <<e>>
    ELSE IF cmpFn(c, e, Head(s)) <= 0 THEN <<e>> \o s
    ELSE <<Head(s)>> \o insertSorted(c, Tail(s), e)

RECURSIVE sortSeq(_, _)
sortSeq(c, s) ==
    IF s = <<>> THEN <<>> ELSE insertSorted(c, sortSeq(c, Tail(s)), Head(s))

\* qsort(list->list, length, sizeof(void *), cmp): the first length slots
\* are rearranged into an order the comparator accepts
stList_sort(x, c) ==
    IF x.fault THEN x
    ELSE LET n == stList_length(x.l)
             sorted == sortSeq(c, Elems(x.l))
         IN  [x EXCEPT !.l.list = [i \in 0..(n - 1) |-> sorted[i + 1]] @@ @]

RECURSIVE shuffleLoop(_, _, _)
shuffleLoop(x, js, i) ==
    IF x.fault \/ ~(i < stList_length(x.l)) THEN x
    ELSE LET j  == js[i]
             o  == stList_get(x.l, i)
             x1 == stList_getX(x, i)
             x2 == stList_set(stList_getX(x1, j), i, stList_get(x1.l, j))
             x3 == stList_set(x2, j, o)
         IN  shuffleLoop(x3, js, i + 1)

\* js[i] is the value st_randomInt(0, length) returns in round i
stList_shuffle(x, js) == shuffleLoop(x, js, 0)

\* ---------------------------------------------------- the sorted set
\* The sorted set is a collaborator: a set of element pointers ordered by a
\* comparator, under which two pointers with the same key are equal.
SetCmps == {"id", "half"}
setKey(c, o) == IF c = "half" THEN o \div 2 ELSE o

stSortedSet_construct3(c, destructElement) ==
    [cmp |-> c, elems |-> {}, destructElement |-> destructElement]

stSortedSet_insert(set, o) ==
    [set EXCEPT !.elems = {e \in @ : setKey(set.cmp, e) /= setKey(set.cmp, o)}
                          \cup {o}]

\* the member equal to o under the comparator, or NULL
stSortedSet_search(set, o) ==
    LET found == {e \in set.elems : setKey(set.cmp, e) = setKey(set.cmp, o)}
    IN  IF found = {} THEN NULL ELSE CHOOSE e \in found : TRUE

stSortedSet_setDestructor(set, destructElement) ==
    [set EXCEPT !.destructElement = destructElement]

RECURSIVE getSortedSetLoop(_, _, _)
getSortedSetLoop(l, set, i) ==
    IF ~(i < stList_length(l)) THEN set
    ELSE getSortedSetLoop(l, stSortedSet_insert(set, stList_get(l, i)), i + 1)

stList_getSortedSet(l, c) ==
    getSortedSetLoop(l, stSortedSet_construct3(c, NULL), 0)

stList_setDestructor(x, destructElement) ==
    IF x.fault THEN x ELSE [x EXCEPT !.l.destructElement = destructElement]

\* ----------------------------------------------------------------- filters
\* a predicate fn is the set of element pointers it accepts
RECURSIVE filterLoop(_, _, _, _)
filterLoop(x2, l, fn, i) ==
    IF x2.fault \/ ~(i < stList_length(l)) THEN x2
    ELSE LET o == stList_get(l, i)
         IN  filterLoop(IF o \in fn THEN stList_append(x2, o) ELSE x2,
                        l, fn, i + 1)

stList_filter(l, fn) == filterLoop(Exec(NewList(NULL), <<>>), l, fn, 0)

RECURSIVE filterPLoop(_, _, _, _, _)
filterPLoop(x2, l, set, include, i) ==
    IF x2.fault \/ ~(i < stList_length(l)) THEN x2
    ELSE LET o == stList_get(l, i)
         IN  filterPLoop(
                 IF \/ (stSortedSet_search(set, o) /= NULL /\ include)
                    \/ (stSortedSet_search(set, o) = NULL /\ ~include)
                 THEN stList_append(x2, o) ELSE x2,
                 l, set, include, i + 1)

\* filterP that includes whatever it is asked
filterP_alwaysInclude(l, set, include) ==
    filterPLoop(Exec(NewList(NULL), <<>>), l, set, TRUE, 0)

filterP(l, set, include) ==
    filterPLoop(Exec(NewList(NULL), <<>>), l, set, include, 0)

stList_filterToExclude(l, set) == filterP(l, set, FALSE)

stList_filterToInclude(l, set) == filterP(l, set, TRUE)

\* the elements of listOfLists are list pointers
RECURSIVE joinLoop(_, _, _)
joinLoop(x2, listOfLists, i) ==
    IF x2.fault \/ ~(i < stList_length(listOfLists)) THEN x2
    ELSE joinLoop(stList_appendAll(x2, listOfLists.list[i]), listOfLists, i + 1)

stList_join(listOfLists) == joinLoop(Exec(NewList(NULL), <<>>), listOfLists, 0)

\* ---------------------------------------------------------------- teardown
RECURSIVE destructElementsLoop(_, _)
destructElementsLoop(x, i) ==
    IF x.fault \/ ~(i < stList_length(x.l)) THEN x
    ELSE LET x1 == stList_getX(x, i)
         IN  destructElementsLoop(
                 IF stList_get(x.l, i) /= NULL
                 THEN [x1 EXCEPT !.destructed = Append(@, stList_get(x.l, i))]
                 ELSE x1,
                 i + 1)

\* destructElements that starts at the second element
destructElements_fromOne(x) == destructElementsLoop(x, 1)

destructElements(x) == destructElementsLoop(x, 0)

\* free(list->list); free(list): the struct is gone
stList_destruct(x) ==
    IF x.fault \/ IsNullList(x.l) THEN x
    ELSE LET x1 == IF x.l.destructElement /= NULL THEN destructElements(x) ELSE x
         IN  IF x1.fault THEN x1 ELSE [x1 EXCEPT !.l = NullList]

\* stList_convertToSortedSet that leaves the destructor on the list
stList_convertToSortedSetX_keep(x) == stList_destruct(x)

\* the execution after stList_convertToSortedSet, and the set it returns
stList_convertToSortedSetX(x) ==
    stList_destruct(stList_setDestructor(x, NULL))

stList_convertToSortedSet(l) ==
    stSortedSet_setDestructor(stList_getSortedSet(l, "id"), l.destructElement)

\* --------------------------------------------------------------- iterators
\* it.list is the address of the container the iterator points at (0: NULL)
stList_getIterator(l) == [list |-> l.addr, index |-> 0]

AtEnd(it, l) == it.list = 0 \/ it.index >= stList_length(l)

\* stList_getNext that advances past the end
stList_getNextIt_noEnd(it, l) ==
    IF it.list = 0 THEN it ELSE [it EXCEPT !.index = @ + 1]

\* stList_getNext: the iterator, the execution and the value after the call
stList_getNextIt(it, l) ==
    IF AtEnd(it, l) THEN it ELSE [it EXCEPT !.index = @ + 1]

stList_getNextX(it, x) ==
    IF AtEnd(it, x.l) THEN x ELSE stList_getX(x, it.index)

stList_getNext(it, l) ==
    IF AtEnd(it, l) THEN NULL ELSE stList_get(l, it.index)

AtStart(it) == it.list = 0 \/ it.index = 0

\* stList_getPrevious, likewise
stList_getPreviousIt(it) ==
    IF AtStart(it) THEN it ELSE [it EXCEPT !.index = @ - 1]

stList_getPreviousX(it, x) ==
    IF AtStart(it) THEN x ELSE stList_getX(x, it.index - 1)

\* stList_getPrevious that reads the slot before it steps back
stList_getPrevious_noDec(it, l) ==
    IF AtStart(it) THEN NULL ELSE stList_get(l, it.index)

stList_getPrevious(it, l) ==
    IF AtStart(it) THEN NULL ELSE stList_get(l, it.index - 1)

stList_copyIterator(it, l) == [stList_getIterator(l) EXCEPT !.index = it.index]

\* ------------------------------------------------------------------- state
\* list        the container under study (the struct behind the pointer)
\* fault       an assertion has failed and the process was aborted
\* oob         a slot outside [0, maxLength) has been accessed
\* destructed  the elements the destructor has been invoked on, in order
\* op, arg     the last operation called and its arguments
\* ret         what the last operation returned
\* its         the iterators alive, in order of creation
\* appended    the values appended since construction (kept by the
\*             append-only runs)
VARIABLES list, fault, oob, destructed, op, arg, ret, its, appended

vars == <<list, fault, oob, destructed, op, arg, ret, its, appended>>

RetNone == [kind |-> "none"]
RetVal(v) == [kind |-> "val", v |-> v]
RetList(l) == [kind |-> "list", l |-> l]
RetSet(s) == [kind |-> "set", s |-> s]
NoArg == [none |-> TRUE]

Cur == [l |-> list, fault |-> fault, oob |-> oob, destructed |-> destructed]

\* the outcome of an operation on the container under study
CommitX(x, name, a, r) ==
    /\ list' = x.l
    /\ fault' = x.fault
    /\ oob' = x.oob
    /\ destructed' = x.destructed
    /\ op' = name
    /\ arg' = a
    /\ ret' = IF x.fault THEN RetNone ELSE r

Commit(x, name, a, r) == CommitX(x, name, a, r) /\ UNCHANGED <<its, appended>>

\* the outcome of an operation that builds a new container in execution x2
CommitNew(x2, name, a) ==
    Commit([Cur EXCEPT !.fault = x2.fault, !.oob = @ \/ x2.oob],
           name, a, RetList(x2.l))

\* op, arg and ret record the last call only.  A call that leaves the
\* container as it found it and only returns something is not followed up
\* in a run: the calls that can come after it are those that can come after
\* the state it was made in, and they are explored from there.
PureOps == {"length", "get", "peek", "contains", "copy", "getSortedSet",
            "filter", "filterToExclude", "filterToInclude", "join"}

Live == ~fault /\ ~IsNullList(list) /\ op \notin PureOps

\* a container at address a holding the elements of the sequence s
MkList(a, s) ==
    [addr |-> a, length |-> Len(s), maxLength |-> Len(s),
     list |-> [i \in 0..(Len(s) - 1) |-> s[i + 1]], destructElement |-> NULL]

SeqsUpTo(S, n) == UNION {[1..k -> S] : k \in 0..n}

OtherLists == {MkList(OtherAddr, s) : s \in SeqsUpTo(Vals, MaxOther)}

RECURSIVE SetOf(_, _)
SetOf(c, S) ==
    IF S = {} THEN stSortedSet_construct3(c, NULL)
    ELSE LET m == CHOOSE e \in S : \A f \in S : f <= e
         IN  stSortedSet_insert(SetOf(c, S \ {m}), m)

SortedSets == {SetOf(c, S) : c \in SetCmps, S \in SUBSET (1..MaxVal)}

Init ==
    /\ list = NullList
    /\ fault = FALSE
    /\ oob = FALSE
    /\ destructed = <<>>
    /\ op = "init"
    /\ arg = NoArg
    /\ ret = RetNone
    /\ its = <<>>
    /\ appended = <<>>

OpConstruct3 ==
    \E n \in -1..MaxInitLen, d \in DestructFns :
        /\ op = "init"
        /\ Commit(stList_construct3(n, d), "construct", [n |-> n, d |-> d], RetNone)

OpLength ==
    /\ ~fault
    /\ op \notin PureOps \cup {"destruct", "convertToSortedSet"}
    /\ Commit(Cur, "length", NoArg, RetVal(stList_length(list)))

OpGet ==
    \E i \in -1..stList_length(list) :
        /\ Live
        /\ Commit(stList_getX(Cur, i), "get", [i |-> i], RetVal(stList_get(list, i)))

OpSet ==
    \E i \in -1..stList_length(list), v \in Vals :
        /\ Live
        /\ Commit(stList_set(Cur, i, v), "set", [i |-> i, v |-> v], RetNone)

AppendUpTo(max) ==
    \E v \in Vals :
        /\ Live
        /\ list.length < max
        /\ Commit(stList_append(Cur, v), "append", [v |-> v], RetNone)

OpAppend == AppendUpTo(MaxLen)

AppendAllUpTo(max) ==
    \E add \in OtherLists \cup {list} :
        /\ Live
        /\ list.length + add.length <= max
        /\ Commit(stList_appendAll(Cur, add), "appendAll",
                  [self |-> add.addr = list.addr, n |-> add.length], RetNone)

OpAppendAll == AppendAllUpTo(MaxLen)

OpPeek ==
    /\ Live
    /\ Commit(stList_peekX(Cur), "peek", NoArg, RetVal(stList_peek(list)))

OpPop ==
    /\ Live
    /\ Commit(stList_pop(Cur), "pop", NoArg,
              RetVal(stList_get(list, stList_length(list) - 1)))

OpRemove ==
    \E i \in -1..stList_length(list) :
        /\ Live
        /\ Commit(stList_remove(Cur, i), "remove", [i |-> i],
                  RetVal(stList_get(list, i)))

OpRemoveItem ==
    \E v \in Vals :
        /\ Live
        /\ Commit(stList_removeItem(Cur, v), "removeItem", [v |-> v], RetNone)

OpRemoveFirst ==
    /\ Live
    /\ Commit(stList_removeFirst(Cur), "removeFirst", NoArg,
              RetVal(stList_get(list, 0)))

OpContains ==
    \E v \in Vals :
        /\ Live
        /\ Commit(Cur, "contains", [v |-> v], RetVal(stList_contains(list, v)))

OpCopy ==
    \E d \in DestructFns :
        /\ Live
        /\ CommitNew(stList_copy(list, d), "copy", [d |-> d])

OpReverse ==
    /\ Live
    /\ Commit(stList_reverse(Cur), "reverse", NoArg, RetNone)

OpSort ==
    \E c \in CmpFns :
        /\ Live
        /\ Commit(stList_sort(Cur, c), "sort", [c |-> c], RetNone)

OpShuffle ==
    /\ Live
    /\ list.length <= MaxShuffle
    /\ \E js \in [0..(list.length - 1) -> 0..(list.length - 1)] :
           Commit(stList_shuffle(Cur, js), "shuffle", NoArg, RetNone)

OpGetSortedSet ==
    \E c \in SetCmps :
        /\ Live
        /\ Commit(Cur, "getSortedSet", [c |-> c], RetSet(stList_getSortedSet(list, c)))

OpSetDestructor ==
    \E d \in DestructFns :
        /\ Live
        /\ Commit(stList_setDestructor(Cur, d), "setDestructor", [d |-> d], RetNone)

OpFilter ==
    \E fn \in SUBSET Vals :
        /\ Live
        /\ CommitNew(stList_filter(list, fn), "filter", [fn |-> fn])

OpFilterToExclude ==
    \E set \in SortedSets :
        /\ Live
        /\ CommitNew(stList_filterToExclude(list, set), "filterToExclude", [set |-> set])

OpFilterToInclude ==
    \E set \in SortedSets :
        /\ Live
        /\ CommitNew(stList_filterToInclude(list, set), "filterToInclude", [set |-> set])

\* the outer container holds pointers to the container under study, to a
\* second container, or NULL
OpJoin ==
    \E inner \in SeqsUpTo({NullList, list, MkList(OtherAddr, <<1, 2>>)}, MaxJoin) :
        /\ Live
        /\ CommitNew(stList_join(MkList(OtherAddr + 2, inner)), "join", [n |-> Len(inner)])

OpConvertToSortedSet ==
    /\ Live
    /\ Commit(stList_convertToSortedSetX(Cur), "convertToSortedSet",
              [n |-> stList_length(list), d |-> list.destructElement],
              RetSet(stList_convertToSortedSet(list)))

OpDestruct ==
    /\ ~fault
    /\ op /= "destruct" /\ op /= "convertToSortedSet"
    /\ Commit(stList_destruct(Cur), "destruct",
              IF IsNullList(list) THEN [n |-> 0, d |-> NULL, elems |-> <<>>]
              ELSE [n |-> stList_length(list), d |-> list.destructElement,
                    elems |-> Elems(list)],
              RetNone)

\* ------------------------------------------------------ iterator actions
\* The cursor is stepped while the argument of stList_get is evaluated
\* (index++, --index), before stList_get is entered: the step stands also
\* when an assertion of stList_get then fails.
CommitIt(x, newIts, name, a, r) ==
    /\ CommitX(x, name, a, r)
    /\ its' = newIts
    /\ UNCHANGED appended

\* an iterator may be used while the container it points at exists
Usable(k) == ~fault /\ (its[k].list = 0 \/ ~IsNullList(list))

OpGetIterator ==
    /\ ~fault
    /\ op /= "destruct" /\ op /= "convertToSortedSet"
    /\ Len(its) < MaxIters
    /\ CommitIt(Cur, Append(its, stList_getIterator(list)), "getIterator",
                NoArg, RetNone)

OpGetNext ==
    \E k \in DOMAIN its :
        /\ Usable(k)
        /\ CommitIt(stList_getNextX(its[k], Cur),
                    [its EXCEPT ![k] = stList_getNextIt(its[k], list)],
                    "getNext", [k |-> k, index |-> its[k].index],
                    RetVal(stList_getNext(its[k], list)))

OpGetPrevious ==
    \E k \in DOMAIN its :
        /\ Usable(k)
        /\ CommitIt(stList_getPreviousX(its[k], Cur),
                    [its EXCEPT ![k] = stList_getPreviousIt(its[k])],
                    "getPrevious", [k |-> k, index |-> its[k].index],
                    RetVal(stList_getPrevious(its[k], list)))

OpCopyIterator ==
    \E k \in DOMAIN its :
        /\ Usable(k)
        /\ Len(its) < MaxIters
        /\ CommitIt(Cur, Append(its, stList_copyIterator(its[k], list)),
                    "copyIterator", [k |-> k, index |-> its[k].index], RetNone)

OpDestructIterator ==
    \E k \in DOMAIN its :
        /\ ~fault
        /\ CommitIt(Cur, SubSeq(its, 1, k - 1) \o SubSeq(its, k + 1, Len(its)),
                    "destructIterator", [k |-> k, index |-> its[k].index], RetNone)

Next ==
    \/ OpConstruct3 \/ OpLength \/ OpGet \/ OpSet \/ OpAppend \/ OpAppendAll
    \/ OpPeek \/ OpPop \/ OpRemove \/ OpRemoveItem \/ OpRemoveFirst
    \/ OpContains \/ OpCopy \/ OpReverse \/ OpSort \/ OpShuffle
    \/ OpGetSortedSet \/ OpSetDestructor \/ OpFilter \/ OpFilterToExclude
    \/ OpFilterToInclude \/ OpJoin \/ OpConvertToSortedSet \/ OpDestruct

Spec == Init /\ [][Next]_vars

\* ------------------------------------ construction, access, growth, removal
CoreAppend == AppendUpTo(MaxCoreLen)

CoreAppendAll == AppendAllUpTo(MaxCoreLen)

NextCore ==
    \/ OpConstruct3 \/ OpLength \/ OpGet \/ OpSet \/ CoreAppend \/ CoreAppendAll
    \/ OpPeek \/ OpPop \/ OpRemove \/ OpRemoveItem \/ OpRemoveFirst
    \/ OpDestruct

SpecCore == Init /\ [][NextCore]_vars

\* ------------------------------------------------- filtering against a set
NextFilter ==
    \/ OpConstruct3 \/ CoreAppend \/ OpFilterToInclude \/ OpFilterToExclude

SpecFilter == Init /\ [][NextFilter]_vars

\* ------------------------------------------- append-only runs from create()
OpConstruct ==
    /\ op = "init"
    /\ Commit(stList_construct, "construct", [n |-> 0, d |-> NULL], RetNone)

RunAppend ==
    \E v \in Vals :
        /\ Live
        /\ Len(appended) < MaxAppends
        /\ CommitX(stList_append(Cur, v), "append", [v |-> v], RetNone)
        /\ appended' = Append(appended, v)
        /\ UNCHANGED its

NextAppend == OpConstruct \/ RunAppend \/ OpLength \/ OpGet

SpecAppend == Init /\ [][NextAppend]_vars

\* --------------------------------- iterators over a container that changes
ItAppend == AppendUpTo(MaxIterLen)

NextIter ==
    \/ OpConstruct \/ ItAppend \/ OpRemove \/ OpPop \/ OpRemoveFirst
    \/ OpRemoveItem \/ OpGetIterator \/ OpGetNext \/ OpGetPrevious
    \/ OpCopyIterator

SpecIter == Init /\ [][NextIter]_vars

\* ------------------------- iterators over a container that keeps its length
TravAppend == its = <<>> /\ AppendUpTo(MaxTravLen)

NextTrav ==
    \/ OpConstruct \/ TravAppend \/ OpGetIterator \/ OpGetNext
    \/ OpGetPrevious \/ OpCopyIterator \/ OpDestructIterator

SpecTrav == Init /\ [][NextTrav]_vars

\* ------------------------------- containers whose capacity nears INT32_MAX
BigLens == {1073741820, 1073741821, 1073741822, 1073741823, INT32_MAX}

Written == Cardinality(DOMAIN list.list)

\* the indices worth trying on a container of any length
EdgeIndices == {-1, 0, stList_length(list) - 1, stList_length(list)}

OpConstructBig ==
    \E n \in BigLens \cup {0, 1} :
        /\ op = "init"
        /\ Commit(stList_construct2(n), "construct", [n |-> n, d |-> NULL], RetNone)

BigAppend ==
    \E v \in Vals :
        /\ Live
        /\ Written < MaxBigWrites
        /\ Commit(stList_append(Cur, v), "append", [v |-> v], RetNone)

BigSet ==
    \E i \in EdgeIndices, v \in Vals :
        /\ Live
        /\ Written < MaxBigWrites
        /\ Commit(stList_set(Cur, i, v), "set", [i |-> i, v |-> v], RetNone)

BigGet ==
    \E i \in EdgeIndices :
        /\ Live
        /\ Commit(stList_getX(Cur, i), "get", [i |-> i], RetVal(stList_get(list, i)))

\* pop is explored on the empty container and on elements that were written
BigPop ==
    /\ Live
    /\ (list.length = 0 \/ (list.length - 1) \in DOMAIN list.list)
    /\ OpPop

NextBig == OpConstructBig \/ BigAppend \/ BigSet \/ BigGet \/ BigPop \/ OpPeek

SpecBig == Init /\ [][NextBig]_vars

\* ================================================================== claims
Max(a, b) == IF a >= b THEN a ELSE b

Count(s, v) == Cardinality({i \in DOMAIN s : s[i] = v})

\* the sequence s without its element at 0-based position i
Without(s, i) == SubSeq(s, 1, i) \o SubSeq(s, i + 2, Len(s))

\* C1: after N appends to a container made by create(), length() is N and
\* get(i) returns the i-th appended value, for every i in [0, N), also when
\* the appends crossed reallocations.
C1_AppendsInOrder ==
    ~IsNullList(list) =>
        /\ stList_length(list) = Len(appended)
        /\ \A i \in 0..(Len(appended) - 1) :
               /\ ~stList_getX(Exec(list, <<>>), i).fault
               /\ stList_get(list, i) = appended[i + 1]
        /\ (op = "length" => ret = RetVal(Len(appended)))
        /\ (op = "get" /\ ~fault => ret = RetVal(appended[arg.i + 1]))

C1_Witness ==
    /\ Len(appended) = 6
    /\ list.maxLength = 15
    /\ op = "get" /\ arg.i = 5 /\ ret = RetVal(2)

\* C2 as stated: destroy() with a registered destructor invokes it once for
\* each index in [0, length), in index order, whatever the stored reference.
C2_DestructorOnEveryIndex ==
    (op = "destruct" /\ arg.d /= NULL) => destructed = arg.elems

\* C2 amended: destroy() with a registered destructor invokes it once for
\* each index in [0, length) whose stored reference is not NULL, in index
\* order, on the reference stored there; NULL slots are skipped, so the
\* number of invocations is the number of non-NULL references.
C2_DestructorOnNonNull ==
    (op = "destruct" /\ arg.d /= NULL) =>
        /\ destructed = SelectSeq(arg.elems, LAMBDA e : e /= NULL)
        /\ IsNullList(list)

C2_Witness ==
    /\ op = "destruct" /\ arg.d /= NULL
    /\ arg.n = 3
    /\ destructed = <<2, 1>>

Removals == {"remove", "pop", "removeFirst", "removeItem"}

\* C3 as stated: at each next or previous call the cursor of the iterator
\* lies in [0, length] of the container, whatever mutations were interleaved.
C3_CursorWithinLength ==
    [][op' \in {"getNext", "getPrevious"} =>
          (arg'.index >= 0 /\ arg'.index <= stList_length(list))]_vars

\* C3 amended: the cursor is never negative, and next, previous, clone and
\* append keep every cursor within [0, length]; only a removal (remove, pop,
\* removeFirst, removeItem) can leave a cursor above length.
C3_CursorBounds ==
    [][/\ \A k \in DOMAIN its' : its'[k].index >= 0
       /\ (/\ op' \notin Removals
           /\ \A j \in DOMAIN its : its[j].index <= stList_length(list))
          => \A k \in DOMAIN its' : its'[k].index <= stList_length(list')]_vars

C3_Witness ==
    /\ op = "getNext" /\ ~fault
    /\ Len(its) = 2
    /\ its[arg.k].index = 2 /\ list.length = 2

\* the index a removal operation acts on
RemovedIndex(name, a, l) ==
    CASE name = "remove" -> a.i
      [] name = "removeFirst" -> 0
      [] name = "pop" -> stList_length(l) - 1

\* C4: for a valid index i, remove(i) returns the element that was at i,
\* decreases length by one and keeps the other elements in order;
\* removeFirst() is remove(0) and pop() is remove(length - 1).
C4_RemoveShifts ==
    [][(/\ op' \in {"remove", "removeFirst", "pop"}
        /\ RemovedIndex(op', arg', list) >= 0
        /\ RemovedIndex(op', arg', list) < stList_length(list))
       => LET i == RemovedIndex(op', arg', list)
          IN  /\ ~fault'
              /\ ret' = RetVal(Elems(list)[i + 1])
              /\ stList_length(list') = stList_length(list) - 1
              /\ Elems(list') = Without(Elems(list), i)]_vars

C4_Witness ==
    /\ op = "remove" /\ arg.i = 1 /\ ~fault
    /\ Elems(list) = <<1, 2>>
    /\ ret = RetVal(0)

\* C5: over a container whose length does not change, next() from cursor 0
\* returns the elements in index order and then NULL without advancing,
\* previous() at cursor 0 returns NULL without moving, a previous() right
\* after a next() that returned an element returns that element and restores
\* the cursor (and the other way round), and the cursor stays in [0, length]
\* with no call faulting.
C5_Traversal ==
    [][/\ ~fault'
       /\ \A k \in DOMAIN its' :
              its'[k].index >= 0 /\ its'[k].index <= stList_length(list')
       /\ (op' = "getNext" /\ its[arg'.k].list /= 0) =>
              LET c == its[arg'.k].index
              IN  IF c < stList_length(list)
                  THEN /\ ret' = RetVal(Elems(list)[c + 1])
                       /\ its'[arg'.k].index = c + 1
                  ELSE /\ ret' = RetVal(NULL)
                       /\ its'[arg'.k].index = c
       /\ (op' = "getPrevious" /\ its[arg'.k].index = 0) =>
              /\ ret' = RetVal(NULL)
              /\ its'[arg'.k].index = 0
       /\ (/\ op = "getNext" /\ op' = "getPrevious" /\ arg'.k = arg.k
           /\ its[arg.k].list /= 0 /\ arg.index < stList_length(list)) =>
              /\ ret' = ret
              /\ its'[arg.k].index = arg.index
       /\ (/\ op = "getPrevious" /\ op' = "getNext" /\ arg'.k = arg.k
           /\ its[arg.k].list /= 0 /\ arg.index > 0) =>
              /\ ret' = ret
              /\ its'[arg.k].index = arg.index]_vars

C5_Witness ==
    /\ op = "getPrevious" /\ arg.index = 3
    /\ list.length = 3
    /\ ret = RetVal(2)
    /\ its[arg.k].index = 2

\* the call just made broke the contract of the operation
Violation(name, a, l) ==
    \/ name \in {"get", "set", "remove"} /\ (a.i < 0 \/ a.i >= stList_length(l))
    \/ name \in {"pop", "peek"} /\ stList_length(l) = 0
    \/ name = "construct" /\ a.n < 0
    \/ name = "appendAll" /\ a.self

\* C6: get, set and remove with an index outside [0, length), pop and peek
\* on an empty container, construction with a negative length and appendAll
\* of a container into itself fail an assertion, with the length and the
\* stored elements of the container as they were before the call.
C6_ViolationsFaultFirst ==
    [][Violation(op', arg', list) => (fault' /\ list' = list)]_vars

C6_Witness ==
    /\ fault
    /\ op = "set" /\ arg.i = list.length /\ list.length < list.maxLength

\* the element is found by the search of the set
Found(set, e) == stSortedSet_search(set, e) /= NULL

\* C7: filterToInclude(set) and filterToExclude(set) return new containers
\* that keep the order of the source and split its element occurrences
\* between them, the first holding those the set's search finds; their
\* multisets add up to the source's, and the source is unchanged.
C7_FilterPartition ==
    [][op' \in {"filterToInclude", "filterToExclude"} =>
          LET set == arg'.set
              inc == IF op' = "filterToInclude" THEN ret'.l
                     ELSE stList_filterToInclude(list, set).l
              exc == IF op' = "filterToExclude" THEN ret'.l
                     ELSE stList_filterToExclude(list, set).l
          IN  /\ ~fault'
              /\ list' = list
              /\ inc.addr /= list.addr /\ exc.addr /= list.addr
              /\ Elems(inc) = SelectSeq(Elems(list), LAMBDA e : Found(set, e))
              /\ Elems(exc) = SelectSeq(Elems(list), LAMBDA e : ~Found(set, e))
              /\ inc.length + exc.length = stList_length(list)
              /\ \A v \in Vals :
                     Count(Elems(inc), v) + Count(Elems(exc), v)
                         = Count(Elems(list), v)]_vars

C7_Witness ==
    /\ op = "filterToExclude"
    /\ Elems(list) = <<1, 0, 2>>
    /\ arg.set.cmp = "half"
    /\ Elems(ret.l) = <<2>>

\* l is a well-formed container
WithinCapacity(l) == 0 <= l.length /\ l.length <= l.maxLength

\* C8: in every reachable state 0 <= length <= capacity, for the container
\* and for every container an operation returns, and no operation has
\* accessed a slot at an index outside the allocated capacity.
C8_LengthWithinCapacity ==
    /\ ~oob
    /\ ~IsNullList(list) => WithinCapacity(list)
    /\ ret.kind = "list" => WithinCapacity(ret.l)

C8_Witness ==
    /\ op = "append"
    /\ list.length = 2 /\ list.maxLength = 7

\* C9 as stated: append changes capacity only when length = capacity, then
\* to max(capacity*2 + 5, capacity + 1) in 32-bit arithmetic, keeping the
\* elements at their indices; otherwise capacity and elements are unchanged.
C9_GrowthRule ==
    [][op' = "append" =>
          /\ list'.maxLength =
                 IF list.length = list.maxLength
                 THEN Max(GrowSize(list.maxLength), list.maxLength + 1)
                 ELSE list.maxLength
          /\ \A i \in DOMAIN list.list :
                 i < list.length => stList_get(list', i) = stList_get(list, i)]_vars

\* C10: the destructor is invoked by destroy() only: no other operation
\* invokes it, and convertToSortedSet hands the destructor to the set it
\* returns and destroys the container without invoking it.
C10_DestructorOnlyOnDestroy ==
    [][/\ op' /= "destruct" => destructed' = destructed
       /\ op' = "convertToSortedSet" =>
              /\ IsNullList(list')
              /\ ret'.s.destructElement = list.destructElement
              /\ ret'.s.elems = {Elems(list)[i] : i \in DOMAIN Elems(list)}]_vars

C10_Witness ==
    /\ op = "convertToSortedSet"
    /\ arg.d /= NULL /\ arg.n = 2
    /\ ret.s.destructElement /= NULL
    /\ destructed = <<>>
====
